---------------------------- MODULE Spec2Model ----------------------------
(***************************************************************************)
(* Model of the Looker MCP server: the Worker's fetch handler (index.ts),  *)
(* credential parsing and validation (types/env.ts) and the tenant-scoped  *)
(* API client (client.ts): token cache, login, request execution and       *)
(* response classification.                                                *)
(*                                                                         *)
(* Time is Date.now() in milliseconds.  A JavaScript string that the code  *)
(* parses (the Retry-After header) is a sequence of one-character strings. *)
(* `undefined` and `null` are the strings Undefined and Null.              *)
(***************************************************************************)
EXTENDS Integers, Sequences, FiniteSets, TLC

\* ------------------------------------------------------------------ bounds
MaxClients == 2
MaxInFlight == 2
MaxTicks == 3

\* ------------------------------------------------------- program constants
SafetyMarginMs == 60000
AssumedValidityMs == 3600000
DefaultExpiresIn == 3600
DefaultRetryAfter == 60

\* --------------------------------------------------------- value universes
Undefined == "undefined"
Null == "null"

BaseUrls == {"https://x.looker.com", "https://y.looker.com"}
SuppliedToken == "P"

\* what the login endpoint may answer: {access_token, expires_in?}
Tokens == {"T1", "T2"}
NoExpiresIn == -1
ExpiresInValues == {NoExpiresIn, 0, 10, 60, 61, 3600}

\* clock advances (ms)
TickSteps == {500, 59500, 3480000}

Paths == {"/health", "/mcp", "/sse", "/"}
Methods == {"GET", "POST"}
Endpoints == {"/user"}

Statuses == {200, 204, 304, 401, 403, 404, 429, 500}
ContentTypes == {Undefined, "application/json", "application/json; charset=utf-8", "text/csv"}

\* response bodies: empty, plain text, CSV, and JSON texts
Bodies ==
    {"", "oops", "a,b", "null", "[1]", "{}",
     "{\"message\":\"m\"}", "{\"error\":\"e\"}",
     "{\"message\":\"\",\"error\":\"e\"}", "{\"message\":\"m\",\"error\":\"e\"}"}

Chars == {"0", "1", "3", "5", "a", "-", ".", " "}
Digits == {"0", "1", "3", "5"}
NoHeader == [has |-> FALSE, v |-> <<>>]
Header(s) == [has |-> TRUE, v |-> s]
RetryAfterHeaders ==
    {NoHeader, Header(<<>>), Header(<<"3", "0">>), Header(<<"0">>), Header(<<"5">>),
     Header(<<"a">>), Header(<<"3", "a">>), Header(<<"1", ".", "5">>),
     Header(<<"-", "5">>)}

\* ------------------------------------------------------------- JavaScript
\* truthiness of an optional string: undefined, null and "" are falsy
Truthy(s) == s # Undefined /\ s # Null /\ s # ""

\* a JavaScript number: NaN or an integer
NaN == [nan |-> TRUE, n |-> 0]
Num(n) == [nan |-> FALSE, n |-> n]

DigitValue(c) ==
    CASE c = "0" -> 0 [] c = "1" -> 1 [] c = "3" -> 3 [] c = "5" -> 5 [] OTHER -> 0

RECURSIVE SkipSpaces(_)
SkipSpaces(s) == IF s # <<>> /\ Head(s) = " " THEN SkipSpaces(Tail(s)) ELSE s

RECURSIVE DigitPrefix(_)
DigitPrefix(s) ==
    IF s # <<>> /\ Head(s) \in Digits THEN <<Head(s)>> \o DigitPrefix(Tail(s)) ELSE <<>>

RECURSIVE DigitsValue(_, _)
DigitsValue(s, acc) ==
    IF s = <<>> THEN acc ELSE DigitsValue(Tail(s), acc * 10 + DigitValue(Head(s)))

\* parseInt(s, 10): skip leading white space, take an optional sign and the
\* longest prefix of decimal digits; NaN when there is no digit
parseInt(s) ==
    LET t == SkipSpaces(s)
        neg == t # <<>> /\ Head(t) = "-"
        u == IF neg THEN Tail(t) ELSE t
        d == DigitPrefix(u)
    IN  IF d = <<>> THEN NaN
        ELSE Num(IF neg THEN 0 - DigitsValue(d, 0) ELSE DigitsValue(d, 0))

\* the result of JSON.parse(text) as far as request() looks at it: whether it
\* throws SyntaxError, whether the value is null, and what reading the
\* properties message and error of the value gives
NoJson == [syntaxError |-> FALSE, null |-> FALSE, message |-> Undefined, error |-> Undefined,
           of |-> Undefined]
JSONparse(text) ==
    CASE text = "null" -> [NoJson EXCEPT !.null = TRUE, !.of = text]
      [] text = "[1]" -> [NoJson EXCEPT !.of = text]
      [] text = "{}" -> [NoJson EXCEPT !.of = text]
      [] text = "{\"message\":\"m\"}" -> [NoJson EXCEPT !.message = "m", !.of = text]
      [] text = "{\"error\":\"e\"}" -> [NoJson EXCEPT !.error = "e", !.of = text]
      [] text = "{\"message\":\"\",\"error\":\"e\"}" ->
             [NoJson EXCEPT !.message = "", !.error = "e", !.of = text]
      [] text = "{\"message\":\"m\",\"error\":\"e\"}" ->
             [NoJson EXCEPT !.message = "m", !.error = "e", !.of = text]
      [] OTHER -> [NoJson EXCEPT !.syntaxError = TRUE]

\* contentType.includes('application/json')
includesApplicationJson(ct) ==
    ct \in {"application/json", "application/json; charset=utf-8"}

\* response.ok
ok(status) == status >= 200 /\ status <= 299

\* encodeURIComponent(s): "&" becomes "%26"; a string of unreserved characters
\* (letters, digits) is left as it is.  The strings the model encodes are
\* "v" and "s&t".
encodeURIComponent(s) == IF s = "s&t" THEN "s%26t" ELSE s

\* ------------------------------------------------------------ credentials
NoCredentials ==
    [baseUrl |-> Undefined, clientId |-> Undefined,
     clientSecret |-> Undefined, accessToken |-> Undefined]

\* headers.get(name) || undefined
headerOrUndefined(h) == IF Truthy(h) THEN h ELSE Undefined

parseTenantCredentials(hBase, hId, hSecret, hToken) ==
    [baseUrl |-> headerOrUndefined(hBase),
     clientId |-> headerOrUndefined(hId),
     clientSecret |-> headerOrUndefined(hSecret),
     accessToken |-> headerOrUndefined(hToken)]

\* faulty variant: one of clientId and clientSecret is enough
validateCredentialsEitherOfPair(credentials) ==
    IF ~Truthy(credentials.baseUrl) THEN "MissingCredentials"
    ELSE IF ~Truthy(credentials.accessToken)
         THEN IF ~Truthy(credentials.clientId) /\ ~Truthy(credentials.clientSecret)
              THEN "MissingCredentials"
              ELSE "ok"
         ELSE "ok"

\* "ok" when validateCredentials returns, "MissingCredentials" when it throws
validateCredentials(credentials) ==
    IF ~Truthy(credentials.baseUrl) THEN "MissingCredentials"
    ELSE IF ~Truthy(credentials.accessToken)
         THEN IF ~Truthy(credentials.clientId) \/ ~Truthy(credentials.clientSecret)
              THEN "MissingCredentials"
              ELSE "ok"
         ELSE "ok"

CredentialValues ==
    [baseUrl : {Undefined, "https://x.looker.com"}, clientId : {Undefined, "v"},
     clientSecret : {Undefined, "v"}, accessToken : {Undefined, SuppliedToken}]

\* ------------------------------------------------------------------ state
VARIABLES
    now,        \* Date.now(), ms
    ticks,      \* number of clock advances so far
    inbound,    \* the Worker's last inbound request and its response
    clients,    \* LookerClientImpl instances, by id
    calls,      \* request() invocations, by slot: in flight, or done and not yet returned
    env,        \* the Worker's environment bindings for the three tunables
    limits,     \* what getCharacterLimit, getDefaultPageSize and getMaxPageSize returned
    page        \* one answered list operation: its params, its items, its result

vars == <<now, ticks, inbound, clients, calls, env, limits, page>>

\* ------------------------------------------------------ environment tunables
Tunables == {"CHARACTER_LIMIT", "DEFAULT_PAGE_SIZE", "MAX_PAGE_SIZE"}

\* a binding of Env: absent, a string, or (against the declared type) not a string
Missing == [type |-> "undefined", chars |-> <<>>]
String(s) == [type |-> "string", chars |-> s]
NotAString == [type |-> "number", chars |-> <<>>]
EnvStrings ==
    {<<>>, <<"5">>, <<"3", "0">>, <<"0">>, <<"a">>, <<"3", "a">>, <<"1", ".", "5">>,
     <<"-", "5">>, <<" ", "5">>}
EnvValues == {Missing, NotAString} \cup {String(s) : s \in EnvStrings}

NoEnv == [key \in Tunables |-> Missing]
NoLimits == [read |-> FALSE, characterLimit |-> 0, defaultPageSize |-> 0, maxPageSize |-> 0]

\* faulty variant: a parsed 0 is taken for a missing value
getEnvNumberFalsyDefault(e, key, defaultValue) ==
    LET value == e[key]
    IN  IF value.type = "string"
        THEN LET parsed == parseInt(value.chars)
             IN  IF parsed.nan \/ parsed.n = 0 THEN defaultValue ELSE parsed.n
        ELSE defaultValue

getEnvNumber(e, key, defaultValue) ==
    LET value == e[key]
    IN  IF value.type = "string"
        THEN LET parsed == parseInt(value.chars)
             IN  IF parsed.nan THEN defaultValue ELSE parsed.n
        ELSE defaultValue

getCharacterLimit(e) == getEnvNumber(e, "CHARACTER_LIMIT", 50000)
getDefaultPageSize(e) == getEnvNumber(e, "DEFAULT_PAGE_SIZE", 20)
getMaxPageSize(e) == getEnvNumber(e, "MAX_PAGE_SIZE", 100)

\* the Worker reads its three tunables
readLimits ==
    /\ ~limits.read
    /\ limits' = [read |-> TRUE,
                  characterLimit |-> getCharacterLimit(env),
                  defaultPageSize |-> getDefaultPageSize(env),
                  maxPageSize |-> getMaxPageSize(env)]
    /\ UNCHANGED <<now, ticks, inbound, clients, calls, env, page>>

\* ---------------------------------------------------------- list operations
ListOperations == {"listLooks", "listDashboards", "listFolders", "listUsers"}
\* params?.limit: undefined when params or its limit is absent
NoLimit == -1
Limits == {NoLimit, 0, 1, 2, 20, 100, 101}
\* how many items the API answered
Lengths == {0, 1, 2, 19, 20, 21, 99, 100, 101}
Items(n) == [i \in 1..n |-> i]

NoPage == [operation |-> "", limit |-> NoLimit, items |-> <<>>,
           returned |-> FALSE, count |-> 0, hasMore |-> FALSE]

\* faulty variant: limit ?? 100, so that a limit of 0 is compared as 0
PaginatedResponseNullishLimit(items, limit) ==
    [count |-> Len(items),
     hasMore |-> Len(items) = (IF limit # NoLimit THEN limit ELSE 100)]

\* what listLooks, listDashboards, listFolders and listUsers build from the
\* array the API answered: limit || 100 takes 100 for an absent limit and for 0
PaginatedResponse(items, limit) ==
    [count |-> Len(items),
     hasMore |-> Len(items) = (IF limit # NoLimit /\ limit # 0 THEN limit ELSE 100)]

\* a list operation returns
listReturns ==
    /\ page.operation # ""
    /\ ~page.returned
    /\ page' = [page EXCEPT !.returned = TRUE,
                            !.count = PaginatedResponse(page.items, page.limit).count,
                            !.hasMore = PaginatedResponse(page.items, page.limit).hasMore]
    /\ UNCHANGED <<now, ticks, inbound, clients, calls, env, limits>>

ClientIds == 1..MaxClients
Slots == 1..MaxInFlight

NoLogin == [done |-> FALSE, at |-> 0, expires_in |-> NoExpiresIn, token |-> Null]

\* fields of LookerClientImpl; lastLogin (the login whose token is cached) and
\* cleared (a 401/403 emptied the slot and nothing filled it since) are history
NoClient ==
    [live |-> FALSE, credentials |-> NoCredentials, baseUrl |-> Undefined,
     accessToken |-> Null, tokenExpiry |-> 0, lastLogin |-> NoLogin, cleared |-> FALSE]

Slot(c) == [accessToken |-> c.accessToken, tokenExpiry |-> c.tokenExpiry]

\* an outbound fetch: the URL, the bearer token and the body
NoRequest == [url |-> "", auth |-> Null, body |-> Undefined]

\* what request() resolves to: nothing decoded (undefined), the body text, or
\* the parsed JSON
NoValue == [decoded |-> "none", text |-> "", json |-> NoJson]

NoOutcome ==
    [kind |-> "none", status |-> 0, retryAfterSeconds |-> Num(0),
     retryable |-> Undefined, why |-> "", message |-> "", value |-> NoValue]

NoResponse ==
    [status |-> 0, contentType |-> Undefined, retryAfter |-> NoHeader, body |-> ""]

\* what a request() invocation found when it began (history)
NothingSeen ==
    [cleared |-> FALSE, loggedIn |-> FALSE, fresh |-> FALSE, token |-> Null,
     nearExpiry |-> FALSE]

\* the lifetime the server gave the token of the last login, in seconds
grantedSeconds(l) == IF l.expires_in = NoExpiresIn THEN DefaultExpiresIn ELSE l.expires_in

\* the last login completed less than (expires_in - 60) s ago, no 401/403 since
Fresh(c, t) ==
    /\ c.lastLogin.done
    /\ ~c.cleared
    /\ t - c.lastLogin.at < (grantedSeconds(c.lastLogin) - 60) * 1000

\* the recorded expiry is at most 60 s away, or past
NearExpiry(c, t) == c.tokenExpiry - t <= 60 * 1000

See(c, t) ==
    [cleared |-> c.cleared, loggedIn |-> c.lastLogin.done, fresh |-> Fresh(c, t),
     token |-> c.lastLogin.token, nearExpiry |-> NearExpiry(c, t)]

\* what a tool handler hands to the MCP server: the envelope it returned
\* (isError, and the content: connected for the connection test, the text of
\* the error for formatError), or thrown when an exception left the handler
NoEnvelope == [isError |-> Undefined, connected |-> Undefined, text |-> "", thrown |-> FALSE]

FreeCall ==
    [pc |-> "free", client |-> 0, endpoint |-> "", seen |-> NothingSeen,
     how |-> "", granted |-> Null, token |-> Null, logins |-> 0, apis |-> 0,
     loginReq |-> NoRequest, apiReq |-> NoRequest,
     outcome |-> NoOutcome, response |-> NoResponse,
     issued |-> Slot(NoClient), before |-> Slot(NoClient), after |-> Slot(NoClient),
     envelope |-> NoEnvelope]

\* status 0: no Response yet, the request is with the MCP handler; client: the
\* Client the stateless server's tools were registered with (0: no server);
\* agent: what became of a LookerMcpAgent ("": none was involved)
NoInbound ==
    [path |-> "", method |-> "", credentials |-> NoCredentials,
     validation |-> "", status |-> 0, client |-> 0, agent |-> ""]

\* LookerClientImpl.constructor
LookerClientImpl(credentials, t) ==
    [live |-> TRUE,
     credentials |-> credentials,
     baseUrl |-> credentials.baseUrl \o "/api/4.0",
     accessToken |-> IF Truthy(credentials.accessToken) THEN credentials.accessToken ELSE Null,
     tokenExpiry |-> IF Truthy(credentials.accessToken) THEN t + AssumedValidityMs ELSE 0,
     lastLogin |-> NoLogin,
     cleared |-> FALSE]

\* createLookerClient(credentials): one Client, for any credentials
Init ==
    /\ now = 0
    /\ ticks = 0
    /\ env = NoEnv
    /\ limits = NoLimits
    /\ page = NoPage
    /\ inbound = NoInbound
    /\ \E credentials \in CredentialValues :
          clients = [i \in ClientIds |->
                        IF i = 1 THEN LookerClientImpl(credentials, 0) ELSE NoClient]
    /\ calls = [s \in Slots |-> FreeCall]

\* the Worker before its first inbound request: no Client exists
InitWorker ==
    /\ now = 0
    /\ ticks = 0
    /\ env = NoEnv
    /\ limits = NoLimits
    /\ page = NoPage
    /\ inbound = NoInbound
    /\ clients = [i \in ClientIds |-> NoClient]
    /\ calls = [s \in Slots |-> FreeCall]

FreeClientIds == {i \in ClientIds : ~clients[i].live}
\* instances are numbered in order of construction
NextClientId == CHOOSE i \in FreeClientIds : \A j \in FreeClientIds : i <= j

\* a completed request() resumes its caller before any other event is handled
Quiet == \A s \in Slots : calls[s].pc # "done"

Respond(path, method, credentials, validation, status, client) ==
    inbound' = [path |-> path, method |-> method,
                credentials |-> credentials, validation |-> validation,
                status |-> status, client |-> client, agent |-> ""]

\* faulty variant: the server and its Client are created before the credentials are validated
fetchConstructsBeforeValidating(path, method, hBase, hId, hSecret, hToken) ==
    LET credentials == parseTenantCredentials(hBase, hId, hSecret, hToken)
        validation == validateCredentials(credentials)
    IN  /\ inbound = NoInbound
        /\ IF path = "/health"
           THEN /\ Respond(path, method, NoCredentials, "", 200, 0)
                /\ UNCHANGED clients
           ELSE IF path = "/mcp" /\ method = "POST"
           THEN /\ FreeClientIds # {}
                /\ clients' = [clients EXCEPT ![NextClientId] =
                                  LookerClientImpl(credentials, now)]
                /\ IF validation # "ok"
                   THEN Respond(path, method, credentials, validation, 401, 0)
                   ELSE Respond(path, method, credentials, validation, 0, NextClientId)
           ELSE IF path = "/sse"
           THEN /\ Respond(path, method, NoCredentials, "", 501, 0)
                /\ UNCHANGED clients
           ELSE /\ Respond(path, method, NoCredentials, "", 200, 0)
                /\ UNCHANGED clients
        /\ UNCHANGED <<now, ticks, calls, env, limits, page>>

\* faulty variant: a Client built for an earlier request with the same credentials is used again
fetchReusesClient(path, method, hBase, hId, hSecret, hToken) ==
    LET credentials == parseTenantCredentials(hBase, hId, hSecret, hToken)
        validation == validateCredentials(credentials)
        same == {i \in ClientIds : clients[i].live /\ clients[i].credentials = credentials}
    IN  /\ inbound = NoInbound
        /\ IF path = "/health"
           THEN /\ Respond(path, method, NoCredentials, "", 200, 0)
                /\ UNCHANGED clients
           ELSE IF path = "/mcp" /\ method = "POST"
           THEN IF validation # "ok"
                THEN /\ Respond(path, method, credentials, validation, 401, 0)
                     /\ UNCHANGED clients
                ELSE IF same # {}
                THEN /\ Respond(path, method, credentials, validation, 0,
                                CHOOSE i \in same : TRUE)
                     /\ UNCHANGED clients
                ELSE /\ FreeClientIds # {}
                     /\ clients' = [clients EXCEPT ![NextClientId] =
                                       LookerClientImpl(credentials, now)]
                     /\ Respond(path, method, credentials, validation, 0, NextClientId)
           ELSE IF path = "/sse"
           THEN /\ Respond(path, method, NoCredentials, "", 501, 0)
                /\ UNCHANGED clients
           ELSE /\ Respond(path, method, NoCredentials, "", 200, 0)
                /\ UNCHANGED clients
        /\ UNCHANGED <<now, ticks, calls, env, limits, page>>

\* faulty variant: /sse and /mcp are served by LookerMcpAgent.serveSSE, whose init() throws
fetchServesAgent(path, method, hBase, hId, hSecret, hToken) ==
    LET credentials == parseTenantCredentials(hBase, hId, hSecret, hToken)
        validation == validateCredentials(credentials)
    IN  /\ inbound = NoInbound
        /\ IF path = "/health"
           THEN /\ Respond(path, method, NoCredentials, "", 200, 0)
                /\ UNCHANGED clients
           ELSE IF path = "/sse" \/ path = "/mcp"
           THEN /\ inbound' = [NoInbound EXCEPT !.path = path, !.method = method,
                                                !.status = 500, !.agent = "init threw"]
                /\ UNCHANGED clients
           ELSE /\ Respond(path, method, NoCredentials, "", 200, 0)
                /\ UNCHANGED clients
        /\ UNCHANGED <<now, ticks, calls, env, limits, page>>

\* the Worker's fetch handler
fetch(path, method, hBase, hId, hSecret, hToken) ==
    LET credentials == parseTenantCredentials(hBase, hId, hSecret, hToken)
        validation == validateCredentials(credentials)
    IN  /\ inbound = NoInbound
        /\ IF path = "/health"
           THEN /\ Respond(path, method, NoCredentials, "", 200, 0)
                /\ UNCHANGED clients
           ELSE IF path = "/mcp" /\ method = "POST"
           THEN IF validation # "ok"
                THEN /\ Respond(path, method, credentials, validation, 401, 0)
                     /\ UNCHANGED clients
                ELSE \* createStatelessServer, then the MCP handler answers
                     /\ FreeClientIds # {}
                     /\ clients' = [clients EXCEPT ![NextClientId] =
                                       LookerClientImpl(credentials, now)]
                     /\ Respond(path, method, credentials, validation, 0, NextClientId)
           ELSE IF path = "/sse"
           THEN /\ Respond(path, method, NoCredentials, "", 501, 0)
                /\ UNCHANGED clients
           ELSE /\ Respond(path, method, NoCredentials, "", 200, 0)
                /\ UNCHANGED clients
        /\ UNCHANGED <<now, ticks, calls, env, limits, page>>

\* the Worker has answered, or has handed the request to the MCP handler; the
\* record of the inbound request is not kept
settle ==
    /\ inbound # NoInbound
    /\ inbound' = NoInbound
    /\ UNCHANGED <<now, ticks, clients, calls, env, limits, page>>

\* LookerMcpAgent.init(), should the runtime ever start the Durable Object: it
\* throws in its first statement, before any tool is registered and before any
\* Client is constructed
LookerMcpAgent_init ==
    /\ inbound = NoInbound
    /\ inbound' = [NoInbound EXCEPT !.agent = "init threw"]
    /\ UNCHANGED <<now, ticks, clients, calls, env, limits, page>>

\* Date.now() moves on
Tick(d) ==
    /\ Quiet
    /\ ticks < MaxTicks
    /\ ticks' = ticks + 1
    /\ now' = now + d
    /\ UNCHANGED <<inbound, clients, calls, env, limits, page>>

\* ------------------------------------------------------- LookerClientImpl
\* faulty variant: the client-credentials login is preferred to the supplied token
getAccessTokenBranchPrefersLogin(c, t) ==
    IF Truthy(c.accessToken) /\ t < c.tokenExpiry - SafetyMarginMs THEN "cached"
    ELSE IF Truthy(c.credentials.clientId) /\ Truthy(c.credentials.clientSecret) THEN "login"
    ELSE IF Truthy(c.credentials.accessToken) THEN "supplied"
    ELSE "nocredentials"

\* faulty variant: a token with exactly the safety margin left is still served
getAccessTokenBranchInclusiveMargin(c, t) ==
    IF Truthy(c.accessToken) /\ t <= c.tokenExpiry - SafetyMarginMs THEN "cached"
    ELSE IF Truthy(c.credentials.accessToken) THEN "supplied"
    ELSE IF ~Truthy(c.credentials.clientId) \/ ~Truthy(c.credentials.clientSecret)
         THEN "nocredentials"
    ELSE "login"

\* faulty variant: the cached token is served until its recorded expiry, without the margin
getAccessTokenBranchNoMargin(c, t) ==
    IF Truthy(c.accessToken) /\ t < c.tokenExpiry THEN "cached"
    ELSE IF Truthy(c.credentials.accessToken) THEN "supplied"
    ELSE IF ~Truthy(c.credentials.clientId) \/ ~Truthy(c.credentials.clientSecret)
         THEN "nocredentials"
    ELSE "login"

\* faulty variant: the credentials count as missing only when both of the pair are
getAccessTokenBranchBothMissing(c, t) ==
    IF Truthy(c.accessToken) /\ t < c.tokenExpiry - SafetyMarginMs THEN "cached"
    ELSE IF Truthy(c.credentials.accessToken) THEN "supplied"
    ELSE IF ~Truthy(c.credentials.clientId) /\ ~Truthy(c.credentials.clientSecret)
         THEN "nocredentials"
    ELSE "login"

\* getAccessToken up to its first await: which branch is taken
getAccessTokenBranch(c, t) ==
    IF Truthy(c.accessToken) /\ t < c.tokenExpiry - SafetyMarginMs THEN "cached"
    ELSE IF Truthy(c.credentials.accessToken) THEN "supplied"
    ELSE IF ~Truthy(c.credentials.clientId) \/ ~Truthy(c.credentials.clientSecret)
         THEN "nocredentials"
    ELSE "login"

\* faulty variant: the token is installed again but the window is not renewed
installSuppliedKeepsWindow(c, t) ==
    [c EXCEPT !.accessToken = c.credentials.accessToken,
              !.cleared = FALSE]

\* the pre-authenticated token is installed again, with a new assumed window
installSupplied(c, t) ==
    [c EXCEPT !.accessToken = c.credentials.accessToken,
              !.tokenExpiry = t + AssumedValidityMs,
              !.cleared = FALSE]

\* data.expires_in || 3600
expiresInOrDefault(e) == IF e = NoExpiresIn \/ e = 0 THEN DefaultExpiresIn ELSE e

\* faulty variant: expires_in is taken for milliseconds
cacheLoginInMilliseconds(c, t, token, e) ==
    [c EXCEPT !.accessToken = token,
              !.tokenExpiry = t + expiresInOrDefault(e),
              !.lastLogin = [done |-> TRUE, at |-> t, expires_in |-> e, token |-> token],
              !.cleared = FALSE]

\* faulty variant: a token that expires within the safety margin is not stored
cacheLoginSkipsShortLived(c, t, token, e) ==
    IF expiresInOrDefault(e) * 1000 <= SafetyMarginMs
    THEN [c EXCEPT !.lastLogin = [done |-> TRUE, at |-> t, expires_in |-> e,
                                  token |-> token],
                   !.cleared = FALSE]
    ELSE [c EXCEPT !.accessToken = token,
                   !.tokenExpiry = t + expiresInOrDefault(e) * 1000,
                   !.lastLogin = [done |-> TRUE, at |-> t, expires_in |-> e,
                                  token |-> token],
                   !.cleared = FALSE]

\* the end of getAccessToken, after a successful login response
cacheLogin(c, t, token, e) ==
    [c EXCEPT !.accessToken = token,
              !.tokenExpiry = t + expiresInOrDefault(e) * 1000,
              !.lastLogin = [done |-> TRUE, at |-> t, expires_in |-> e, token |-> token],
              !.cleared = FALSE]

\* POST {credentials.baseUrl}/api/4.0/login with the form-encoded pair
loginRequest(c) ==
    [url |-> c.credentials.baseUrl \o "/api/4.0/login",
     auth |-> Null,
     body |-> "client_id=" \o encodeURIComponent(c.credentials.clientId)
              \o "&client_secret=" \o encodeURIComponent(c.credentials.clientSecret)]

\* faulty variant: the API call goes to the instance URL without the API prefix
apiRequestWithoutApiPrefix(c, endpoint, token) ==
    [url |-> c.credentials.baseUrl \o endpoint, auth |-> token, body |-> Undefined]

\* getAuthHeaders and the fetch of request(): {baseUrl}{endpoint}, Bearer token
apiRequest(c, endpoint, token) ==
    [url |-> c.baseUrl \o endpoint, auth |-> token, body |-> Undefined]

AuthenticationError(why, message) ==
    [NoOutcome EXCEPT !.kind = "AuthenticationFailed", !.why = why, !.message = message]

NoCredentialsMessage ==
    "No credentials provided. Include X-Looker-Client-ID and X-Looker-Client-Secret headers."
AuthenticationFailedMessage == "Authentication failed. Check your API credentials."

\* faulty variant: the 401/403 branch leaves the cached token in place
clearTokenKeepsToken(c) == [c EXCEPT !.cleared = TRUE, !.lastLogin = NoLogin]

\* the 401/403 branch of request(): the cached token is dropped
clearToken(c) ==
    [c EXCEPT !.accessToken = Null, !.tokenExpiry = 0, !.cleared = TRUE,
              !.lastLogin = NoLogin]

\* faulty variant: the Retry-After header is not read
retryAfterSecondsIgnoresHeader(h) == Num(DefaultRetryAfter)

\* retryAfter ? parseInt(retryAfter, 10) : 60
retryAfterSeconds(h) ==
    IF h.has /\ h.v # <<>> THEN parseInt(h.v) ELSE Num(DefaultRetryAfter)

Result(kind, status) == [NoOutcome EXCEPT !.kind = kind, !.status = status]

\* faulty variant: a body that parses as JSON but has neither field is shown raw
apiErrorMessageRawWhenNoField(status, errorBody) ==
    LET generic == "API error: " \o ToString(status)
        errorJson == JSONparse(errorBody)
    IN  IF errorJson.syntaxError \/ errorJson.null
        THEN IF errorBody # "" THEN errorBody ELSE generic
        ELSE IF Truthy(errorJson.message) THEN errorJson.message
        ELSE IF Truthy(errorJson.error) THEN errorJson.error
        ELSE IF errorBody # "" THEN errorBody ELSE generic

\* the message of the LookerApiError for another non-2xx status: JSON.parse
\* throws on text that is not JSON, and reading .message of null throws; the
\* catch takes the body text, or the generic message when the body is empty
apiErrorMessage(status, errorBody) ==
    LET generic == "API error: " \o ToString(status)
        errorJson == JSONparse(errorBody)
    IN  IF errorJson.syntaxError \/ errorJson.null
        THEN IF errorBody # "" THEN errorBody ELSE generic
        ELSE IF Truthy(errorJson.message) THEN errorJson.message
        ELSE IF Truthy(errorJson.error) THEN errorJson.error
        ELSE generic

\* return undefined / await response.text() / response.json()
Undecoded == NoValue
TextOf(body) == [NoValue EXCEPT !.decoded = "text", !.text = body]
JsonOf(body) == [NoValue EXCEPT !.decoded = "json", !.json = JSONparse(body)]

\* faulty variant: the content type is looked at before the 204 test
classifyContentTypeBefore204(status, contentType, retryAfter, body) ==
    IF status = 429
    THEN [Result("RateLimited", status) EXCEPT
             !.retryAfterSeconds = retryAfterSeconds(retryAfter),
             !.message = "Rate limit exceeded"]
    ELSE IF status = 401 \/ status = 403
    THEN AuthenticationError("status", AuthenticationFailedMessage)
    ELSE IF status = 404
    THEN [Result("NotFound", 404) EXCEPT !.retryable = "false",
                                         !.message = "Not found: " \o body]
    ELSE IF ~ok(status)
    THEN [Result("ApiError", status) EXCEPT !.message = apiErrorMessage(status, body)]
    ELSE IF ~includesApplicationJson(IF Truthy(contentType) THEN contentType ELSE "")
    THEN [Result("Text", status) EXCEPT !.value = TextOf(body)]
    ELSE IF status = 204
    THEN [Result("Empty", status) EXCEPT !.value = Undecoded]
    ELSE [Result("Json", status) EXCEPT !.value = JsonOf(body)]

\* request() after the response arrived: the outcome, by the first matching rule
\* faulty variant: every 2xx body is parsed as JSON unless the status is 204
classifyParsesEveryBody(status, contentType, retryAfter, body) ==
    IF status = 429
    THEN [Result("RateLimited", status) EXCEPT
             !.retryAfterSeconds = retryAfterSeconds(retryAfter),
             !.message = "Rate limit exceeded"]
    ELSE IF status = 401 \/ status = 403
    THEN AuthenticationError("status", AuthenticationFailedMessage)
    ELSE IF status = 404
    THEN [Result("NotFound", 404) EXCEPT !.retryable = "false",
                                         !.message = "Not found: " \o body]
    ELSE IF ~ok(status)
    THEN [Result("ApiError", status) EXCEPT !.message = apiErrorMessage(status, body)]
    ELSE IF status = 204
    THEN [Result("Empty", status) EXCEPT !.value = Undecoded]
    ELSE [Result("Json", status) EXCEPT !.value = JsonOf(body)]

classify(status, contentType, retryAfter, body) ==
    IF status = 429
    THEN [Result("RateLimited", status) EXCEPT
             !.retryAfterSeconds = retryAfterSeconds(retryAfter),
             !.message = "Rate limit exceeded"]
    ELSE IF status = 401 \/ status = 403
    THEN AuthenticationError("status", AuthenticationFailedMessage)
    ELSE IF status = 404
    THEN [Result("NotFound", 404) EXCEPT !.retryable = "false",
                                         !.message = "Not found: " \o body]
    ELSE IF ~ok(status)
    THEN [Result("ApiError", status) EXCEPT !.message = apiErrorMessage(status, body)]
    ELSE IF status = 204
    THEN [Result("Empty", status) EXCEPT !.value = Undecoded]
    ELSE IF ~includesApplicationJson(IF Truthy(contentType) THEN contentType ELSE "")
    THEN [Result("Text", status) EXCEPT !.value = TextOf(body)]
    ELSE [Result("Json", status) EXCEPT !.value = JsonOf(body)]

\* faulty variant: every error response drops the cached token
clearsTokenOnAnyError(status) == ~ok(status)

\* whether the branch of request() taken for this status drops the cached token
clearsToken(status) == status = 401 \/ status = 403

FreeSlots == {s \in Slots : calls[s].pc = "free"}

Done(call, outcome, response, before, after) ==
    [call EXCEPT !.pc = "done", !.outcome = outcome, !.response = response,
                 !.before = before, !.after = after]

\* faulty variant: the login is not awaited, the API call goes out with whatever is cached
requestStartWithoutAwait(s, id, endpoint) ==
    /\ Quiet
    /\ s \in FreeSlots /\ \A r \in FreeSlots : s <= r
    /\ clients[id].live
    /\ LET c == clients[id]
           branch == getAccessTokenBranch(c, now)
           call == [FreeCall EXCEPT !.client = id, !.endpoint = endpoint,
                       !.seen = See(c, now), !.how = branch]
       IN  CASE branch = "cached" ->
                  /\ calls' = [calls EXCEPT ![s] =
                        [call EXCEPT !.pc = "api", !.token = c.accessToken, !.apis = @ + 1,
                                     !.issued = Slot(c),
                                     !.apiReq = apiRequest(c, endpoint, c.accessToken)]]
                  /\ UNCHANGED clients
             [] branch = "supplied" ->
                  /\ clients' = [clients EXCEPT ![id] = installSupplied(c, now)]
                  /\ calls' = [calls EXCEPT ![s] =
                        [call EXCEPT !.pc = "api", !.token = clients'[id].accessToken,
                                     !.apis = @ + 1,
                                     !.issued = Slot(clients'[id]),
                                     !.apiReq = apiRequest(c, endpoint, clients'[id].accessToken)]]
             [] branch = "nocredentials" ->
                  /\ calls' = [calls EXCEPT ![s] =
                        Done(call, AuthenticationError("nocredentials", NoCredentialsMessage),
                             NoResponse,
                             Slot(c), Slot(c))]
                  /\ UNCHANGED clients
             [] OTHER ->
                  /\ calls' = [calls EXCEPT ![s] =
                        [call EXCEPT !.pc = "login", !.logins = @ + 1,
                                     !.loginReq = loginRequest(c),
                                     !.apis = @ + 1,
                                     !.apiReq = apiRequest(c, endpoint, c.accessToken)]]
                  /\ UNCHANGED clients
    /\ UNCHANGED <<now, ticks, inbound, env, limits, page>>

\* request(endpoint) is invoked on client id: getAuthHeaders -> getAccessToken
\* runs to its first await, and on a token the API call is sent at once
requestStart(s, id, endpoint) ==
    /\ Quiet
    /\ s \in FreeSlots /\ \A r \in FreeSlots : s <= r
    /\ clients[id].live
    /\ LET c == clients[id]
           branch == getAccessTokenBranch(c, now)
           call == [FreeCall EXCEPT !.client = id, !.endpoint = endpoint,
                       !.seen = See(c, now), !.how = branch]
       IN  CASE branch = "cached" ->
                  /\ calls' = [calls EXCEPT ![s] =
                        [call EXCEPT !.pc = "api", !.token = c.accessToken, !.apis = @ + 1,
                                     !.issued = Slot(c),
                                     !.apiReq = apiRequest(c, endpoint, c.accessToken)]]
                  /\ UNCHANGED clients
             [] branch = "supplied" ->
                  /\ clients' = [clients EXCEPT ![id] = installSupplied(c, now)]
                  /\ calls' = [calls EXCEPT ![s] =
                        [call EXCEPT !.pc = "api", !.token = clients'[id].accessToken,
                                     !.apis = @ + 1,
                                     !.issued = Slot(clients'[id]),
                                     !.apiReq = apiRequest(c, endpoint, clients'[id].accessToken)]]
             [] branch = "nocredentials" ->
                  /\ calls' = [calls EXCEPT ![s] =
                        Done(call, AuthenticationError("nocredentials", NoCredentialsMessage),
                             NoResponse,
                             Slot(c), Slot(c))]
                  /\ UNCHANGED clients
             [] OTHER ->
                  /\ calls' = [calls EXCEPT ![s] =
                        [call EXCEPT !.pc = "login", !.logins = @ + 1,
                                     !.loginReq = loginRequest(c)]]
                  /\ UNCHANGED clients
    /\ UNCHANGED <<now, ticks, inbound, env, limits, page>>

\* the login endpoint answers 2xx with {access_token, expires_in?}
loginOk(s, token, e) ==
    /\ Quiet
    /\ calls[s].pc = "login"
    /\ LET id == calls[s].client
           c == clients[id]
       IN  /\ clients' = [clients EXCEPT ![id] = cacheLogin(c, now, token, e)]
           /\ calls' = [calls EXCEPT ![s] =
                 [@ EXCEPT !.pc = "api", !.granted = token,
                           !.token = clients'[id].accessToken, !.apis = @ + 1,
                           !.issued = Slot(clients'[id]),
                           !.apiReq = apiRequest(c, calls[s].endpoint,
                                                 clients'[id].accessToken)]]
    /\ UNCHANGED <<now, ticks, inbound, env, limits, page>>

\* faulty variant: the login failure is raised without the body of the response
loginFailedDropsBody(s, status, body) ==
    /\ Quiet
    /\ calls[s].pc = "login"
    /\ ~ok(status)
    /\ LET c == clients[calls[s].client]
       IN  calls' = [calls EXCEPT ![s] =
              Done(@, AuthenticationError("login", "Looker login failed"),
                   [NoResponse EXCEPT !.status = status, !.body = body],
                   Slot(c), Slot(c))]
    /\ UNCHANGED <<now, ticks, inbound, clients, env, limits, page>>

\* faulty variant: a refused login drops the token that was cached
loginFailedClearsToken(s, status, body) ==
    /\ Quiet
    /\ calls[s].pc = "login"
    /\ ~ok(status)
    /\ LET id == calls[s].client
           c == clients[id]
       IN  /\ clients' = [clients EXCEPT ![id] = clearToken(c)]
           /\ calls' = [calls EXCEPT ![s] =
                 Done(@, AuthenticationError("login", "Looker login failed: " \o body),
                      [NoResponse EXCEPT !.status = status, !.body = body],
                      Slot(c), Slot(clearToken(c)))]
    /\ UNCHANGED <<now, ticks, inbound, env, limits, page>>

\* the login endpoint answers non-2xx
loginFailed(s, status, body) ==
    /\ Quiet
    /\ calls[s].pc = "login"
    /\ ~ok(status)
    /\ LET c == clients[calls[s].client]
       IN  calls' = [calls EXCEPT ![s] =
              Done(@, AuthenticationError("login", "Looker login failed: " \o body),
                   [NoResponse EXCEPT !.status = status, !.body = body],
                   Slot(c), Slot(c))]
    /\ UNCHANGED <<now, ticks, inbound, clients, env, limits, page>>

\* faulty variant: after a first 401/403 the token is cleared and the call is made again
apiResponseRetriesOnce(s, status, contentType, retryAfter, body) ==
    /\ Quiet
    /\ calls[s].pc = "api"
    /\ LET id == calls[s].client
           c == clients[id]
           after == IF clearsToken(status) THEN clearToken(c) ELSE c
       IN  /\ clients' = [clients EXCEPT ![id] = after]
           /\ IF clearsToken(status) /\ calls[s].apis = 1
              THEN calls' = [calls EXCEPT ![s] =
                      [@ EXCEPT !.apis = @ + 1,
                                !.apiReq = apiRequest(c, calls[s].endpoint, calls[s].token)]]
              ELSE calls' = [calls EXCEPT ![s] =
                      Done(@, classify(status, contentType, retryAfter, body),
                           [status |-> status, contentType |-> contentType,
                            retryAfter |-> retryAfter, body |-> body],
                           Slot(c), Slot(after))]
    /\ UNCHANGED <<now, ticks, inbound, env, limits, page>>

\* the API answers: the rest of request()
apiResponse(s, status, contentType, retryAfter, body) ==
    /\ Quiet
    /\ calls[s].pc = "api"
    /\ LET id == calls[s].client
           c == clients[id]
           after == IF clearsToken(status) THEN clearToken(c) ELSE c
       IN  /\ clients' = [clients EXCEPT ![id] = after]
           /\ calls' = [calls EXCEPT ![s] =
                 Done(@, classify(status, contentType, retryAfter, body),
                      [status |-> status, contentType |-> contentType,
                       retryAfter |-> retryAfter, body |-> body],
                      Slot(c), Slot(after))]
    /\ UNCHANGED <<now, ticks, inbound, env, limits, page>>

\* fetch() rejects (network failure) while the login or the API call is awaited
fetchRejects(s) ==
    /\ Quiet
    /\ calls[s].pc \in {"login", "api"}
    /\ LET c == clients[calls[s].client]
       IN  calls' = [calls EXCEPT ![s] =
              Done(@, [NoOutcome EXCEPT !.kind = "NetworkError", !.why = calls[s].pc],
                   NoResponse, Slot(c), Slot(c))]
    /\ UNCHANGED <<now, ticks, inbound, clients, env, limits, page>>

\* no request() is in flight
Idle == \A s \in Slots : calls[s].pc = "free"

\* the caller of request() takes the result or the error
return(s) ==
    /\ calls[s].pc = "done"
    /\ calls' = [calls EXCEPT ![s] = FreeCall]
    /\ UNCHANGED <<now, ticks, inbound, clients, env, limits, page>>

\* ------------------------------------------------------------------ tools
Tools == {"looker_test_connection", "looker_list_looks"}

\* the endpoint each tool's client operation requests (limit has its default 20)
EndpointOf(tool) == IF tool = "looker_test_connection" THEN "/user" ELSE "/looks?limit=20"
ToolOf(endpoint) == IF endpoint = "/user" THEN "looker_test_connection" ELSE "looker_list_looks"

\* request() rejected: one of its errors, a rejected fetch, or the SyntaxError
\* of response.json()
Rejected(o) ==
    \/ o.kind \in {"AuthenticationFailed", "RateLimited", "NotFound", "ApiError", "NetworkError"}
    \/ o.kind = "Json" /\ o.value.json.syntaxError

NoError == [threw |-> FALSE, name |-> "", message |-> "", retryable |-> FALSE]

\* the retryable flag of the error classes of utils/errors.js, where
\* request() does not pass it
defaultRetryable(kind) == kind = "RateLimited"

\* the value request() rejected with
ErrorOf(o) ==
    CASE o.kind = "NetworkError" ->
             [threw |-> TRUE, name |-> "TypeError", message |-> "fetch failed",
              retryable |-> FALSE]
      [] o.kind = "Json" ->
             [threw |-> TRUE, name |-> "SyntaxError", message |-> "Unexpected token",
              retryable |-> FALSE]
      [] OTHER ->
             [threw |-> TRUE, name |-> o.kind, message |-> o.message,
              retryable |-> IF o.retryable = "false" THEN FALSE
                            ELSE defaultRetryable(o.kind)]

\* faulty variant: the caught error's message is replaced by 'Connection failed'
testConnectionDropsMessage(o) ==
    IF Rejected(o)
    THEN [connected |-> "false", message |-> "Connection failed"]
    ELSE [connected |-> "true", message |-> "Successfully connected to Looker API"]

\* testConnection(): every error of request() is caught and reported as data
testConnection(o) ==
    IF Rejected(o)
    THEN [connected |-> "false", message |-> ErrorOf(o).message]
    ELSE [connected |-> "true", message |-> "Successfully connected to Looker API"]

\* listLooks(): errors of request() pass through; looks.length throws
\* TypeError when request() gave undefined (204) or null
listLooks(o) ==
    IF Rejected(o) THEN ErrorOf(o)
    ELSE IF o.value.decoded = "none" \/ (o.value.decoded = "json" /\ o.value.json.null)
    THEN [threw |-> TRUE, name |-> "TypeError",
          message |-> "Cannot read properties of undefined (reading 'length')",
          retryable |-> FALSE]
    ELSE NoError

\* formatErrorForLogging(error): the details attached to the error payload
formatErrorForLogging(e) == [name |-> e.name, message |-> e.message]

formatError(e) ==
    LET errorInfo == formatErrorForLogging(e)
        LookerApiError ==
            e.name \in {"AuthenticationFailed", "RateLimited", "NotFound", "ApiError"}
    IN  [NoEnvelope EXCEPT
            !.isError = "true",
            !.text = "Error: " \o e.message
                     \o (IF LookerApiError /\ e.retryable THEN " (retryable)" ELSE "")]

formatResponse(entityType) == [NoEnvelope EXCEPT !.text = entityType]

\* the looker_test_connection handler of createStatelessServer
looker_test_connection(o) ==
    LET result == testConnection(o)
    IN  [NoEnvelope EXCEPT !.connected = result.connected, !.text = result.message]

\* faulty variant: the handler has no try/catch
looker_list_looksWithoutCatch(o) ==
    LET e == listLooks(o)
    IN  IF e.threw THEN [NoEnvelope EXCEPT !.thrown = TRUE] ELSE formatResponse("looks")

\* the looker_list_looks handler
looker_list_looks(o) ==
    LET e == listLooks(o)
    IN  IF e.threw THEN formatError(e) ELSE formatResponse("looks")

\* the tool handler that awaited the client operation resumes and returns
toolReturns(s) ==
    /\ calls[s].pc = "done"
    /\ calls' = [calls EXCEPT ![s] =
          [@ EXCEPT !.pc = "replied",
                    !.envelope = IF ToolOf(calls[s].endpoint) = "looker_test_connection"
                                 THEN looker_test_connection(calls[s].outcome)
                                 ELSE looker_list_looks(calls[s].outcome)]]
    /\ UNCHANGED <<now, ticks, inbound, clients, env, limits, page>>

\* the MCP server sends the tool result
reply(s) ==
    /\ calls[s].pc = "replied"
    /\ calls' = [calls EXCEPT ![s] = FreeCall]
    /\ UNCHANGED <<now, ticks, inbound, clients, env, limits, page>>

\* ----------------------------------------------------------- specification
\* the responses the API gives in the lifetime of one Client
LifetimeResponses ==
    {[status |-> st, contentType |-> "application/json", retryAfter |-> NoHeader,
      body |-> "{\"message\":\"m\"}"] : st \in Statuses}
    \cup {[status |-> 200, contentType |-> "text/csv", retryAfter |-> NoHeader,
           body |-> "a,b"]}

LoginFailures == {401, 500}
LoginFailureBodies == {"", "oops"}

\* the lifetime of one Client whose calls are made one after the other
Next ==
    \/ \E d \in TickSteps : Tick(d)
    \/ \E s \in Slots, id \in ClientIds, endpoint \in Endpoints :
          Idle /\ requestStart(s, id, endpoint)
    \/ \E s \in Slots, token \in Tokens, e \in ExpiresInValues : loginOk(s, token, e)
    \/ \E s \in Slots, status \in LoginFailures, body \in LoginFailureBodies :
          loginFailed(s, status, body)
    \/ \E s \in Slots, r \in LifetimeResponses :
          apiResponse(s, r.status, r.contentType, r.retryAfter, r.body)
    \/ \E s \in Slots : fetchRejects(s)
    \/ \E s \in Slots : return(s)

Spec == Init /\ [][Next]_vars

\* overlapping calls on one Client that has a clientId/clientSecret pair, with
\* or without a supplied token; the clock stands still
InitOverlap ==
    /\ now = 0
    /\ ticks = 0
    /\ env = NoEnv
    /\ limits = NoLimits
    /\ page = NoPage
    /\ inbound = NoInbound
    /\ \E credentials \in CredentialValues :
          /\ Truthy(credentials.clientId) /\ Truthy(credentials.clientSecret)
          /\ clients = [i \in ClientIds |->
                           IF i = 1 THEN LookerClientImpl(credentials, 0) ELSE NoClient]
    /\ calls = [s \in Slots |-> FreeCall]

OverlapExpiresIn == {NoExpiresIn, 10}
OverlapStatuses == {200, 401, 403, 404, 429, 500}

NextOverlap ==
    \/ \E s \in Slots, id \in ClientIds, endpoint \in Endpoints : requestStart(s, id, endpoint)
    \/ \E s \in Slots, token \in Tokens, e \in OverlapExpiresIn : loginOk(s, token, e)
    \/ \E s \in Slots : loginFailed(s, 401, "oops")
    \/ \E s \in Slots, status \in OverlapStatuses :
          apiResponse(s, status, "application/json", NoHeader, "{}")
    \/ \E s \in Slots : fetchRejects(s)
    \/ \E s \in Slots : return(s)

SpecOverlap == InitOverlap /\ [][NextOverlap]_vars

\* every response, to one Client that holds a supplied token and one that logs in
InitResponses ==
    /\ now = 0
    /\ ticks = 0
    /\ env = NoEnv
    /\ limits = NoLimits
    /\ page = NoPage
    /\ inbound = NoInbound
    /\ \E credentials \in CredentialValues :
          /\ validateCredentials(credentials) = "ok"
          /\ clients = [i \in ClientIds |->
                           IF i = 1 THEN LookerClientImpl(credentials, 0) ELSE NoClient]
    /\ calls = [s \in Slots |-> FreeCall]

NextResponses ==
    \/ \E s \in Slots, id \in ClientIds, endpoint \in Endpoints :
          Idle /\ requestStart(s, id, endpoint)
    \/ \E s \in Slots, token \in Tokens : loginOk(s, token, NoExpiresIn)
    \/ \E s \in Slots, status \in Statuses, contentType \in ContentTypes,
          retryAfter \in RetryAfterHeaders, body \in Bodies :
          /\ (status # 429 => retryAfter = NoHeader)
          /\ (status = 429 => body = "")
          /\ apiResponse(s, status, contentType, retryAfter, body)
    \/ \E s \in Slots : return(s)

SpecResponses == InitResponses /\ [][NextResponses]_vars

\* tool calls made one after the other on one Client with valid credentials
ToolStatuses == {200, 204, 401, 403, 404, 429, 500}
ToolContentTypes == {"application/json", "text/csv"}
ToolBodies == {"[1]", "null", "oops"}

NextTools ==
    \/ \E s \in Slots, id \in ClientIds, tool \in Tools :
          Idle /\ requestStart(s, id, EndpointOf(tool))
    \/ \E s \in Slots, token \in Tokens : loginOk(s, token, NoExpiresIn)
    \/ \E s \in Slots, body \in LoginFailureBodies : loginFailed(s, 401, body)
    \/ \E s \in Slots, status \in ToolStatuses, contentType \in ToolContentTypes,
          body \in ToolBodies :
          apiResponse(s, status, contentType, NoHeader, body)
    \/ \E s \in Slots : fetchRejects(s)
    \/ \E s \in Slots : toolReturns(s)
    \/ \E s \in Slots : reply(s)

SpecTools == InitResponses /\ [][NextTools]_vars

\* the Worker: inbound requests construct Clients, whose tools then call
\* request().  An inbound request and a call in flight touch different Clients,
\* so the steps commute and inbound requests are taken between calls.
WorkerStatuses == {200, 401}

\* the X-Looker-* headers of an inbound request: each present or absent, and
\* some present but empty
InboundHeaders ==
    [base : {Undefined} \cup BaseUrls, id : {Undefined, "v"},
     secret : {Undefined, "s&t"}, token : {Undefined, SuppliedToken}]
    \cup {[base |-> "", id |-> "v", secret |-> "v", token |-> Undefined],
          [base |-> "https://x.looker.com", id |-> "", secret |-> "v", token |-> Undefined],
          [base |-> "https://x.looker.com", id |-> "v", secret |-> "", token |-> Undefined],
          [base |-> "https://x.looker.com", id |-> Undefined, secret |-> Undefined,
           token |-> ""]}
NoHeaders == [base |-> Undefined, id |-> Undefined, secret |-> Undefined, token |-> Undefined]

Settled == inbound = NoInbound

NextWorker ==
    \/ \E path \in Paths, method \in Methods, h \in InboundHeaders :
          /\ (path # "/mcp" \/ method # "POST" => h = NoHeaders)
          /\ Idle
          /\ fetch(path, method, h.base, h.id, h.secret, h.token)
    \/ settle
    \/ \E s \in Slots, id \in ClientIds : Settled /\ Idle /\ requestStart(s, id, "/user")
    \/ \E s \in Slots, token \in Tokens : Settled /\ loginOk(s, token, NoExpiresIn)
    \/ \E s \in Slots, status \in WorkerStatuses :
          Settled /\ apiResponse(s, status, "application/json", NoHeader, "{}")
    \/ \E s \in Slots : Settled /\ return(s)

SpecWorker == InitWorker /\ [][NextWorker]_vars

\* the Worker's routes and the stateful agent, without any call to Looker
NextAgent ==
    \/ \E path \in Paths, method \in Methods, h \in InboundHeaders :
          /\ (path # "/mcp" \/ method # "POST" => h = NoHeaders)
          /\ fetch(path, method, h.base, h.id, h.secret, h.token)
    \/ settle
    \/ LookerMcpAgent_init

SpecAgent == InitWorker /\ [][NextAgent]_vars

\* the tunables, read from every environment
InitEnv ==
    /\ now = 0
    /\ ticks = 0
    /\ inbound = NoInbound
    /\ clients = [i \in ClientIds |-> NoClient]
    /\ calls = [s \in Slots |-> FreeCall]
    /\ env \in [Tunables -> EnvValues]
    /\ limits = NoLimits
    /\ page = NoPage

NextEnv == readLimits

SpecEnv == InitEnv /\ [][NextEnv]_vars

\* one list operation on every answer of the API and every limit
InitPage ==
    /\ now = 0
    /\ ticks = 0
    /\ inbound = NoInbound
    /\ clients = [i \in ClientIds |-> NoClient]
    /\ calls = [s \in Slots |-> FreeCall]
    /\ env = NoEnv
    /\ limits = NoLimits
    /\ \E operation \in ListOperations, limit \in Limits, n \in Lengths :
          page = [NoPage EXCEPT !.operation = operation, !.limit = limit,
                                !.items = Items(n)]

NextPage == listReturns

SpecPage == InitPage /\ [][NextPage]_vars

\* -------------------------------------------------------------- properties
Started == {s \in Slots : calls[s].pc # "free"}
Finished == {s \in Slots : calls[s].pc = "done"}
Owner(s) == clients[calls[s].client]
Supplied(c) == c.credentials.accessToken # Undefined
HasPair(c) == c.credentials.clientId # Undefined /\ c.credentials.clientSecret # Undefined
ClearedSlot == [accessToken |-> Null, tokenExpiry |-> 0]
\* the call ended on a response of the API (not of the login endpoint)
Answered(s) == calls[s].pc = "done" /\ calls[s].response.status # 0 /\ calls[s].apis = 1

\* C1: a Client constructed with a supplied accessToken never issues a login
\* call, whatever clientId/clientSecret are, however much time has passed and
\* whether or not a 401/403 cleared the slot before.
C1_SuppliedTokenNeverLogsIn ==
    \A s \in Started :
        Supplied(Owner(s)) =>
            /\ calls[s].logins = 0
            /\ calls[s].loginReq = NoRequest
            /\ calls[s].how \in {"cached", "supplied"}

\* C1 witness: a request() on a Client with a supplied token and a full
\* clientId/clientSecret pair, begun after a 401/403 had cleared the slot and
\* after the clock moved, has sent its API call.
C1_Witness ==
    \E s \in Started :
        /\ Supplied(Owner(s)) /\ HasPair(Owner(s))
        /\ calls[s].seen.cleared
        /\ now > 0
        /\ calls[s].pc = "api"

\* C2: on a Client with only clientId+clientSecret the first getToken() issues
\* exactly one login call; a getToken() begun less than (expires_in - 60) s
\* after the last completed login, with no 401/403 in between, issues no login
\* call and returns that login's token.
C2_FirstLoginThenCacheHit ==
    \A s \in Started :
        (~Supplied(Owner(s)) /\ HasPair(Owner(s))) =>
            /\ (~calls[s].seen.loggedIn /\ ~calls[s].seen.cleared => calls[s].logins = 1)
            /\ (calls[s].seen.fresh =>
                    /\ calls[s].logins = 0
                    /\ calls[s].pc \in {"api", "done"}
                    /\ calls[s].token = calls[s].seen.token)

\* C2 witness: a second request(), begun after the clock moved and within the
\* window of a login that granted 61 s, has its token.
C2_Witness ==
    \E s \in Started :
        /\ ~Supplied(Owner(s))
        /\ calls[s].seen.fresh
        /\ calls[s].pc = "api"
        /\ Owner(s).lastLogin.expires_in = 61
        /\ now > Owner(s).lastLogin.at

\* C3 as stated: on any Client, the getToken() that follows a 401/403 issues a
\* login call.
C3_Original ==
    \A s \in Started : calls[s].seen.cleared => calls[s].logins = 1

\* C3 amended: a 401/403 response empties the slot; on a Client without a
\* supplied accessToken the next getToken() that finds the slot still empty
\* issues exactly one login call, and a getToken() that follows that login
\* within its window hits the cache (no further login).
C3_ClearedThenOneLogin ==
    /\ \A s \in Finished :
          (Answered(s) /\ calls[s].response.status \in {401, 403}) =>
              calls[s].after = ClearedSlot
    /\ \A s \in Started :
          ~Supplied(Owner(s)) =>
              /\ (calls[s].seen.cleared => calls[s].how = "login" /\ calls[s].logins = 1)
              /\ (calls[s].seen.fresh => calls[s].how = "cached" /\ calls[s].logins = 0)

\* C3 witness: on a Client without supplied token, a request() that found the
\* slot cleared by a 401/403 has logged in again and sent its API call.
C3_Witness ==
    \E s \in Started :
        /\ ~Supplied(Owner(s))
        /\ calls[s].seen.cleared
        /\ calls[s].logins = 1
        /\ calls[s].pc = "api"

CredentialsComplete(c) ==
    /\ c.baseUrl # Undefined
    /\ \/ c.accessToken # Undefined
       \/ c.clientId # Undefined /\ c.clientSecret # Undefined

McpPost(r) == r.path = "/mcp" /\ r.method = "POST"

\* C4: validateCredentials succeeds exactly when baseUrl is set and either
\* accessToken or both clientId and clientSecret are set; otherwise it fails
\* with MissingCredentials.
C4_ValidateIffComplete ==
    McpPost(inbound) =>
        /\ inbound.validation \in {"ok", "MissingCredentials"}
        /\ (inbound.validation = "ok" <=> CredentialsComplete(inbound.credentials))
        /\ (inbound.credentials = NoCredentials => inbound.validation = "MissingCredentials")
        /\ (inbound.credentials = [NoCredentials EXCEPT !.baseUrl = "https://x.looker.com"]
                => inbound.validation = "MissingCredentials")
        /\ (inbound.credentials = [NoCredentials EXCEPT !.baseUrl = "https://x.looker.com",
                                                        !.clientId = "v"]
                => inbound.validation = "MissingCredentials")
        /\ (inbound.credentials = [NoCredentials EXCEPT !.baseUrl = "https://x.looker.com",
                                                        !.accessToken = SuppliedToken]
                => inbound.validation = "ok")

\* C4 witness: {baseUrl, accessToken} alone was validated and passed.
C4_Witness ==
    /\ McpPost(inbound)
    /\ inbound.credentials = [NoCredentials EXCEPT !.baseUrl = "https://x.looker.com",
                                                   !.accessToken = SuppliedToken]
    /\ inbound.validation = "ok"

Live == {i \in ClientIds : clients[i].live}

\* C5: an inbound POST /mcp whose credentials are incomplete is answered 401
\* in a step that constructs no Client and issues no login and no API call.
C5_UnauthorizedBeforeNetwork ==
    [][(inbound = NoInbound /\ inbound' # NoInbound /\ McpPost(inbound')
          /\ ~CredentialsComplete(inbound'.credentials))
       => /\ inbound'.status = 401
          /\ inbound'.client = 0
          /\ clients' = clients
          /\ calls' = calls]_vars

\* C5 witness: a POST /mcp with a base URL but incomplete credentials was
\* answered 401 after an earlier request's Client had logged in.
C5_Witness ==
    /\ McpPost(inbound)
    /\ inbound.status = 401
    /\ inbound.credentials.baseUrl # Undefined
    /\ \E i \in ClientIds : clients[i].live /\ clients[i].lastLogin.done

\* the classification rules of C6, in their order
RuleMatches(i, status, contentType) ==
    CASE i = 1 -> status = 429
      [] i = 2 -> status \in {401, 403}
      [] i = 3 -> status = 404
      [] i = 4 -> status < 200 \/ status > 299
      [] i = 5 -> status = 204
      [] i = 6 -> contentType \notin {"application/json", "application/json; charset=utf-8"}
      [] OTHER -> TRUE
RuleKinds ==
    <<"RateLimited", "AuthenticationFailed", "NotFound", "ApiError", "Empty", "Text", "Json">>
FirstRule(status, contentType) ==
    CHOOSE i \in 1..7 :
        /\ RuleMatches(i, status, contentType)
        /\ \A j \in 1..(i - 1) : ~RuleMatches(j, status, contentType)

\* C6: request() classifies a response by the first matching rule, in the
\* order 429, 401/403 (token cleared), 404 (non-retryable), other non-2xx
\* (ApiError with the status), 204, non-JSON content type, JSON.
C6_FirstMatchWins ==
    \A s \in Finished :
        Answered(s) =>
            LET r == calls[s].response
                o == calls[s].outcome
                i == FirstRule(r.status, r.contentType)
            IN  /\ o.kind = RuleKinds[i]
                /\ (i = 2 <=> calls[s].after = ClearedSlot /\ calls[s].before # ClearedSlot)
                /\ (i # 2 => calls[s].after = calls[s].before)
                /\ (i = 3 => o.retryable = "false")
                /\ (i = 4 => o.status = r.status)

\* C6 witness: a 204 response with Content-Type text/csv gave the empty result.
C6_Witness ==
    \E s \in Finished :
        /\ Answered(s)
        /\ calls[s].response.status = 204
        /\ calls[s].response.contentType = "text/csv"
        /\ calls[s].outcome.kind = "Empty"

\* the value of a string of decimal digits
RECURSIVE Pow10(_)
Pow10(n) == IF n = 0 THEN 1 ELSE 10 * Pow10(n - 1)
RECURSIVE DecimalSum(_, _)
DecimalSum(v, i) ==
    IF i > Len(v) THEN 0
    ELSE DigitValue(v[i]) * Pow10(Len(v) - i) + DecimalSum(v, i + 1)
AllDigits(v) == v # <<>> /\ \A i \in 1..Len(v) : v[i] \in Digits

\* C7: on a 429, retryAfterSeconds is the number in the Retry-After header
\* (30 for "30"), and 60 when the header is absent.
C7_RetryAfterFromHeader ==
    \A s \in Finished :
        (Answered(s) /\ calls[s].response.status = 429) =>
            LET h == calls[s].response.retryAfter
                o == calls[s].outcome
            IN  /\ o.kind = "RateLimited"
                /\ (h.has /\ AllDigits(h.v) => o.retryAfterSeconds = Num(DecimalSum(h.v, 1)))
                /\ (h = Header(<<"3", "0">>) => o.retryAfterSeconds = Num(30))
                /\ (~h.has => o.retryAfterSeconds = Num(60))

\* C7 witness: a 429 with Retry-After: 30 failed with retryAfterSeconds 30.
C7_Witness ==
    \E s \in Finished :
        /\ Answered(s)
        /\ calls[s].response.status = 429
        /\ calls[s].response.retryAfter = Header(<<"3", "0">>)
        /\ calls[s].outcome.retryAfterSeconds = Num(30)

\* C8 as stated: on a 429 retryAfterSeconds is always a number, and it is 60
\* when the Retry-After header is present but does not start with a number.
C8_Original ==
    \A s \in Finished :
        (Answered(s) /\ calls[s].response.status = 429) =>
            LET h == calls[s].response.retryAfter
                o == calls[s].outcome
            IN  /\ ~o.retryAfterSeconds.nan
                /\ (h.has /\ h.v # <<>> /\ Head(h.v) \notin Digits \cup {"-"}
                        => o.retryAfterSeconds = Num(60))

ErrorKinds == {"RateLimited", "AuthenticationFailed", "NotFound", "ApiError"}

C10_BearerIsTheTokenReturned ==
    \A s \in Started :
        calls[s].apis = 1 =>
            /\ calls[s].apiReq.auth = calls[s].token
            /\ (calls[s].how = "login" => calls[s].apiReq.auth = calls[s].granted)
            /\ (calls[s].how = "cached" /\ ~Supplied(Owner(s))
                    => calls[s].apiReq.auth = calls[s].seen.token)
            /\ (Supplied(Owner(s))
                    => calls[s].apiReq.auth = Owner(s).credentials.accessToken)

\* C10 witness: a login answered {access_token: T1, expires_in: 10} and the
\* API call of the same request() went out with Bearer T1.
C10_Witness ==
    \E s \in Started :
        /\ calls[s].how = "login"
        /\ calls[s].pc = "api"
        /\ calls[s].granted = "T1"
        /\ Owner(s).lastLogin = [done |-> TRUE, at |-> now, expires_in |-> 10, token |-> "T1"]
        /\ calls[s].apiReq.auth = "T1"

\* C11 as stated: after a successful login the recorded expiry is the time of
\* the login plus expires_in * 1000 ms for every expires_in the server sent,
\* and plus 3600 * 1000 ms only when the server sent none.
C11_Original ==
    \A i \in ClientIds :
        clients[i].lastLogin.done =>
            clients[i].tokenExpiry =
                clients[i].lastLogin.at
                + (IF clients[i].lastLogin.expires_in = NoExpiresIn
                   THEN 3600
                   ELSE clients[i].lastLogin.expires_in) * 1000

\* C12: on a Client that has only clientId+clientSecret, a getToken() called
\* while the token of an earlier login is cached and its recorded expiry is at
\* most 60 s away (or past) does not return the cached token: it issues a login
\* call, and the API call carries what that login returned.  A token served
\* from the cache had more than 60 s left.
C12_NoCacheHitNearExpiry ==
    \A s \in Started :
        (~Supplied(Owner(s)) /\ HasPair(Owner(s))) =>
            /\ (calls[s].seen.loggedIn /\ calls[s].seen.nearExpiry =>
                    /\ calls[s].how = "login"
                    /\ calls[s].logins = 1
                    /\ (calls[s].apis = 1 => calls[s].apiReq.auth = calls[s].granted))
            /\ (calls[s].how = "cached" => ~calls[s].seen.nearExpiry)

\* C12 witness: a request() begun after the clock moved, when the cached login
\* token had exactly 60 s left before its recorded expiry, awaits a new login.
C12_Witness ==
    \E s \in Started :
        /\ ~Supplied(Owner(s))
        /\ calls[s].seen.loggedIn /\ calls[s].seen.nearExpiry
        /\ calls[s].pc = "login"
        /\ Owner(s).accessToken # Null
        /\ now > 0
        /\ Owner(s).tokenExpiry - now = 60000

\* the inbound request taken in this step was handed to an MCP server
Handed == inbound = NoInbound /\ inbound' # NoInbound /\ inbound'.client # 0

\* C13: every inbound POST /mcp that is served constructs a Client of its own,
\* from its own credentials and with nothing of another Client in its token
\* slot; a step of one Client's call changes no other Client; and the bearer
\* token of an API call is the token in the slot of the Client that makes the
\* call, which is that Client's supplied token or the token of its own login.
C13_OwnClientOwnToken ==
    [][/\ Handed =>
             LET i == inbound'.client
             IN  /\ ~clients[i].live /\ clients'[i].live
                 /\ \A j \in ClientIds \ {i} : clients'[j] = clients[j]
                 /\ clients'[i].credentials = inbound'.credentials
                 /\ clients'[i].accessToken \in {Null, inbound'.credentials.accessToken}
                 /\ clients'[i].lastLogin = NoLogin
       /\ \A i \in ClientIds :
             (clients[i].live /\ clients'[i] # clients[i]) =>
                 \E s \in Slots : calls'[s] # calls[s] /\ calls'[s].client = i
       /\ \A s \in Slots :
             calls'[s].pc = "api" =>
                 LET c == clients'[calls'[s].client]
                 IN  /\ calls'[s].apiReq.auth = c.accessToken
                     /\ (Supplied(c) => calls'[s].apiReq.auth = c.credentials.accessToken)
                     /\ (~Supplied(c) =>
                            /\ c.lastLogin.done
                            /\ calls'[s].apiReq.auth = c.lastLogin.token)]_vars

\* C13 witness: two inbound requests with the same credentials were served by
\* two Clients; the first logged in and holds T1, the second logged in and its
\* API call is out with Bearer T2.
C13_Witness ==
    /\ clients[1].live /\ clients[2].live
    /\ clients[1].credentials = clients[2].credentials
    /\ clients[1].accessToken = "T1"
    /\ \E s \in Started :
          /\ calls[s].client = 2
          /\ calls[s].pc = "api"
          /\ calls[s].how = "login"
          /\ calls[s].apiReq.auth = "T2"

\* percent-encoding of the clientId and clientSecret values of the inbound headers
PercentEncoded(s) == CASE s = "v" -> "v" [] s = "s&t" -> "s%26t" [] OTHER -> ""

\* C14: the credentials and the base URL of a Client never change after its
\* construction from the inbound request's credentials; every login call goes
\* to {baseUrl}/api/4.0/login with the form-encoded clientId and clientSecret
\* of those credentials, every API call to {baseUrl}/api/4.0{endpoint}, and a
\* supplied token is sent as it was given.
C14_OneTenantPerClient ==
    [][/\ \A i \in ClientIds :
             clients[i].live =>
                 /\ clients'[i].live
                 /\ clients'[i].credentials = clients[i].credentials
                 /\ clients'[i].baseUrl = clients[i].baseUrl
       /\ Handed =>
             /\ clients'[inbound'.client].credentials = inbound'.credentials
             /\ clients'[inbound'.client].baseUrl
                    = inbound'.credentials.baseUrl \o "/api/4.0"
       /\ \A s \in Slots :
             calls'[s].pc # "free" =>
                 LET given == clients'[calls'[s].client].credentials
                 IN  /\ calls'[s].logins = 1 =>
                            /\ calls'[s].loginReq.url
                                   = given.baseUrl \o "/api/4.0" \o "/login"
                            /\ calls'[s].loginReq.body
                                   = "client_id=" \o PercentEncoded(given.clientId)
                                     \o "&client_secret="
                                     \o PercentEncoded(given.clientSecret)
                     /\ calls'[s].apis = 1 =>
                            /\ calls'[s].apiReq.url
                                   = given.baseUrl \o "/api/4.0" \o calls'[s].endpoint
                            /\ (given.accessToken # Undefined
                                    => calls'[s].apiReq.auth = given.accessToken)]_vars

\* C14 witness: a Client for https://x.looker.com exists, and a Client for
\* https://y.looker.com has logged in with its own pair and sent its API call.
C14_Witness ==
    /\ clients[1].live /\ clients[1].credentials.baseUrl = "https://x.looker.com"
    /\ \E s \in Started :
          /\ calls[s].client = 2
          /\ calls[s].pc = "api"
          /\ calls[s].loginReq.url = "https://y.looker.com/api/4.0/login"
          /\ calls[s].loginReq.body = "client_id=v&client_secret=s%26t"
          /\ calls[s].apiReq.url = "https://y.looker.com/api/4.0/user"

\* the call ended on a response of the login endpoint that gave no token
LoginRefused(s) ==
    /\ calls[s].pc = "done"
    /\ calls[s].how = "login"
    /\ calls[s].granted = Null
    /\ calls[s].response.status # 0

\* C16: a request() whose login was answered with a non-2xx status ends with
\* AuthenticationFailed, the message is "Looker login failed: " followed by
\* the body of the login response, no API call was issued by that request(),
\* and the token slot is as it was.
C16_LoginFailureCarriesBody ==
    \A s \in Slots :
        LoginRefused(s) =>
            /\ ~ok(calls[s].response.status)
            /\ calls[s].outcome.kind = "AuthenticationFailed"
            /\ calls[s].outcome.message = "Looker login failed: " \o calls[s].response.body
            /\ calls[s].apis = 0
            /\ calls[s].apiReq = NoRequest
            /\ calls[s].after = calls[s].before

\* C16 witness: the login that followed a 401/403 was answered 500 with body
\* "oops"; the request() failed with "Looker login failed: oops".
C16_Witness ==
    \E s \in Slots :
        /\ LoginRefused(s)
        /\ calls[s].seen.cleared
        /\ calls[s].response.status = 500
        /\ calls[s].response.body = "oops"
        /\ calls[s].outcome.message = "Looker login failed: oops"
        /\ calls[s].apis = 0

JsonContentType(ct) == ct \in {"application/json", "application/json; charset=utf-8"}

\* C17: a 204 response gives undefined and its body is not decoded, whatever
\* its Content-Type; any other 2xx response whose Content-Type is absent or
\* not JSON gives the body text as it came, unparsed; a body is parsed as JSON
\* only when the Content-Type is JSON and the status is not 204.
C17_DecodingByStatusAndContentType ==
    \A s \in Finished :
        (Answered(s) /\ calls[s].response.status \in 200..299) =>
            LET r == calls[s].response
                v == calls[s].outcome.value
            IN  /\ (r.status = 204 => v = [decoded |-> "none", text |-> "", json |-> NoJson])
                /\ (r.status # 204 /\ ~JsonContentType(r.contentType) =>
                        v = [decoded |-> "text", text |-> r.body, json |-> NoJson])
                /\ (v.decoded = "json" <=> r.status # 204 /\ JsonContentType(r.contentType))
                /\ (v.decoded = "json" /\ r.body = "{\"message\":\"m\"}" =>
                        v.json.message = "m" /\ ~v.json.syntaxError)

\* C17 witness: a 200 response with Content-Type text/csv and a body that is
\* JSON text was returned as that text, not parsed.
C17_Witness ==
    \E s \in Finished :
        /\ Answered(s)
        /\ calls[s].response.status = 200
        /\ calls[s].response.contentType = "text/csv"
        /\ calls[s].response.body = "{\"message\":\"m\"}"
        /\ calls[s].outcome.kind = "Text"
        /\ calls[s].outcome.value.text = "{\"message\":\"m\"}"
        /\ calls[s].outcome.value.json = NoJson

\* the call ended on a non-2xx response other than 429, 401, 403 and 404
OtherError(s) ==
    /\ Answered(s)
    /\ calls[s].response.status \notin 200..299
    /\ calls[s].response.status \notin {429, 401, 403, 404}

GenericMessage(status) == "API error: " \o ToString(status)

\* C18 as stated: the message is the message field, else the error field, of
\* a JSON body, else the raw body text, and the generic "API error: <status>"
\* is used only when the body is empty.
C18_Original ==
    \A s \in Finished :
        OtherError(s) =>
            /\ calls[s].outcome.kind = "ApiError"
            /\ (calls[s].outcome.message = GenericMessage(calls[s].response.status)
                    => calls[s].response.body = "")

\* the message expected for each body of the model
ExpectedMessage(status, body) ==
    CASE body = "" -> GenericMessage(status)
      [] body = "oops" -> "oops"
      [] body = "a,b" -> "a,b"
      [] body = "null" -> "null"
      [] body = "[1]" -> GenericMessage(status)
      [] body = "{}" -> GenericMessage(status)
      [] body = "{\"message\":\"m\"}" -> "m"
      [] body = "{\"error\":\"e\"}" -> "e"
      [] body = "{\"message\":\"\",\"error\":\"e\"}" -> "e"
      [] body = "{\"message\":\"m\",\"error\":\"e\"}" -> "m"

\* C18 amended: when the body parses as JSON to a value other than null, the
\* message is its message field if that is truthy, else its error field if
\* that is truthy, else the generic "API error: <status>", also when the body
\* is not empty ({} or [1]); when the body does not parse as JSON, or parses
\* to null, the message is the raw body text, or the generic text when the
\* body is empty.  The error carries the status.
C18_ApiErrorMessage ==
    \A s \in Finished :
        OtherError(s) =>
            /\ calls[s].outcome.kind = "ApiError"
            /\ calls[s].outcome.status = calls[s].response.status
            /\ calls[s].outcome.message
                   = ExpectedMessage(calls[s].response.status, calls[s].response.body)

\* C18 witness: a 500 response with body {} failed with "API error: 500".
C18_Witness ==
    \E s \in Finished :
        /\ OtherError(s)
        /\ calls[s].response.status = 500
        /\ calls[s].response.body = "{}"
        /\ calls[s].outcome.message = "API error: 500"

\* C19 as stated: whatever the interleaving of the request() calls on one
\* Client, a 401/403 response clears only the token that its call was sent
\* with (never a token that another call's login cached since), and no two
\* calls in flight have both issued a login call for the same Client.
C19_Original ==
    /\ \A s \in Finished :
          (Answered(s) /\ calls[s].response.status \in {401, 403}) =>
              calls[s].before.accessToken \in {Null, calls[s].token}
    /\ \A s, r \in Slots :
          (s # r /\ calls[s].client = calls[r].client /\ calls[s].client # 0) =>
              ~(calls[s].logins = 1 /\ calls[r].logins = 1
                  /\ calls[s].seen.token = calls[r].seen.token
                  /\ calls[s].seen.cleared = calls[r].seen.cleared)

\* the step is the return of getToken() to call s with a token: at once from
\* the cache or the supplied token, or after a login
Issues(s) == calls'[s].pc = "api" /\ calls[s].pc \in {"free", "login"}

\* the step is the arrival of a 401 or 403 response for call s
Invalidates(s) ==
    /\ calls[s].pc = "api" /\ calls'[s].pc = "done"
    /\ calls'[s].response.status \in {401, 403}

\* C20: the token slot of a Client changes only in a step in which getToken()
\* returns a token to one of its calls or a 401/403 response arrives for one
\* of its calls; a request() that ends on any other response (429, 404,
\* another non-2xx, 204, a text or JSON body) leaves the token and its
\* recorded expiry as getToken() left them for that call.
C20_SlotChangesOnlyByIssueAndInvalidate ==
    [][/\ \A i \in ClientIds :
             (clients[i].live /\ Slot(clients'[i]) # Slot(clients[i])) =>
                 \E s \in Slots : calls'[s].client = i /\ (Issues(s) \/ Invalidates(s))
       /\ \A s \in Slots :
             (calls[s].pc = "api" /\ calls'[s].pc = "done"
                /\ calls'[s].response.status \notin {0, 401, 403}) =>
                 /\ UNCHANGED clients
                 /\ calls'[s].after = calls'[s].before
                 /\ calls'[s].after = calls'[s].issued
                 /\ calls'[s].issued.accessToken = calls'[s].token
                 /\ Slot(clients'[calls'[s].client]) = calls'[s].issued]_vars

\* C20 witness: a request() that logged in was answered 429 after the clock
\* moved, and the slot still holds the token and expiry of that login.
C20_Witness ==
    \E s \in Finished :
        /\ Answered(s)
        /\ calls[s].response.status = 429
        /\ calls[s].how = "login"
        /\ calls[s].after.accessToken = calls[s].granted
        /\ calls[s].after = calls[s].issued
        /\ now > Owner(s).lastLogin.at
        /\ calls[s].after.tokenExpiry = Owner(s).lastLogin.at + 61000

Replied == {s \in Slots : calls[s].pc = "replied"}

\* C15 as stated: every error raised in a client operation reaches the MCP
\* caller as an envelope with isError = true, and no handler lets an
\* exception through.
C15_Original ==
    \A s \in Replied :
        /\ ~calls[s].envelope.thrown
        /\ (Rejected(calls[s].outcome) => calls[s].envelope.isError = "true")

\* the client operation behind the tool threw to the handler
OperationThrew(s) ==
    /\ calls[s].endpoint = "/looks?limit=20"
    /\ \/ calls[s].outcome.kind \in ErrorKinds \cup {"NetworkError"}
       \/ calls[s].outcome.kind = "Json" /\ calls[s].response.body = "oops"
       \/ calls[s].outcome.kind = "Json" /\ calls[s].response.body = "null"
       \/ calls[s].outcome.kind = "Empty"

\* C15 amended: no tool handler lets an exception through; an error that a
\* client operation throws to its handler comes back as an envelope with
\* isError = true, and only then; testConnection() throws nothing, it catches
\* the errors of its request() itself, so looker_test_connection answers a
\* failed connection with an envelope without isError that says
\* connected: false and carries the error's message.
C15_HandlersCatchWhatIsThrown ==
    \A s \in Replied :
        /\ ~calls[s].envelope.thrown
        /\ (calls[s].endpoint = "/looks?limit=20" =>
                (calls[s].envelope.isError = "true" <=> OperationThrew(s)))
        /\ (calls[s].endpoint = "/user" =>
                /\ calls[s].envelope.isError = Undefined
                /\ (calls[s].envelope.connected = "false"
                        <=> calls[s].outcome.kind \notin {"Empty", "Text", "Json"}
                            \/ (calls[s].outcome.kind = "Json"
                                  /\ calls[s].response.body = "oops"))
                /\ (calls[s].outcome.kind \in ErrorKinds
                        => calls[s].envelope.text = calls[s].outcome.message))

\* C15 witness: looker_list_looks, after its login, was answered 404 and
\* returned the envelope of formatError with isError = true.
C15_Witness ==
    \E s \in Replied :
        /\ calls[s].endpoint = "/looks?limit=20"
        /\ calls[s].how = "login"
        /\ calls[s].response.status = 404
        /\ calls[s].outcome.kind = "NotFound"
        /\ calls[s].envelope.isError = "true"
        /\ calls[s].envelope.text = "Error: Not found: oops"

\* C21: stateful mode is disabled.  LookerMcpAgent.init() throws on every
\* invocation, in a step that registers no tools and constructs no Client; the
\* Worker's fetch handler never routes a request to the agent: /sse is answered
\* 501 without a Client, and only POST /mcp reaches a stateless server.
C21_StatefulModeDisabled ==
    [][(inbound = NoInbound /\ inbound' # NoInbound) =>
          /\ inbound'.agent \in {"", "init threw"}
          /\ inbound'.agent = "init threw" =>
                /\ inbound'.path = "" /\ inbound'.client = 0
                /\ clients' = clients /\ calls' = calls
          /\ inbound'.path # "" => inbound'.agent = ""
          /\ inbound'.path = "/sse" =>
                inbound'.status = 501 /\ inbound'.client = 0 /\ clients' = clients
          /\ inbound'.client # 0 => McpPost(inbound')]_vars

\* init() has thrown in a Worker that already serves a tenant statelessly
C21_Witness ==
    /\ inbound.agent = "init threw"
    /\ inbound.client = 0
    /\ Live # {}
\* what parseInt(value, 10) gives for the strings of EnvStrings that start with
\* an integer, written out by hand
ParsedInteger(value, defaultValue) ==
    CASE value = String(<<"5">>) -> 5
      [] value = String(<<"3", "0">>) -> 30
      [] value = String(<<"0">>) -> 0
      [] value = String(<<"3", "a">>) -> 3
      [] value = String(<<"1", ".", "5">>) -> 1
      [] value = String(<<"-", "5">>) -> 0 - 5
      [] value = String(<<" ", "5">>) -> 5
      [] OTHER -> defaultValue

\* C22: getCharacterLimit, getDefaultPageSize and getMaxPageSize return the
\* integer parsed from their environment string when it parses, and otherwise
\* (binding missing, not a string, or unparseable) 50000, 20 and 100.
C22_TunablesParseOrDefault ==
    limits.read =>
        /\ limits.characterLimit = ParsedInteger(env["CHARACTER_LIMIT"], 50000)
        /\ limits.defaultPageSize = ParsedInteger(env["DEFAULT_PAGE_SIZE"], 20)
        /\ limits.maxPageSize = ParsedInteger(env["MAX_PAGE_SIZE"], 100)

\* one tunable missing, one unparseable, one parsed
C22_Witness ==
    /\ limits.read
    /\ env["CHARACTER_LIMIT"] = Missing /\ limits.characterLimit = 50000
    /\ env["DEFAULT_PAGE_SIZE"] = String(<<"a">>) /\ limits.defaultPageSize = 20
    /\ env["MAX_PAGE_SIZE"] = String(<<"3", "0">>) /\ limits.maxPageSize = 30
\* the limit the caller asked for, 100 standing in for no limit and for limit 0
RequestedLimit == IF page.limit = NoLimit \/ page.limit = 0 THEN 100 ELSE page.limit

\* C29: in the result of a list operation (looks, dashboards, folders, users)
\* count equals the number of items returned, and hasMore is true exactly when
\* that number equals the requested limit (100 when no limit was given or the
\* limit is 0); it is false whenever fewer items than the limit came back.
C29_CountAndHasMore ==
    page.returned =>
        /\ page.count = Len(page.items)
        /\ page.hasMore = (Len(page.items) = RequestedLimit)
        /\ Len(page.items) < RequestedLimit => ~page.hasMore

\* a full page of 100 without a limit, reported as having more
C29_Witness ==
    /\ page.returned
    /\ page.operation = "listDashboards"
    /\ page.limit = NoLimit
    /\ Len(page.items) = 100
    /\ page.count = 100
    /\ page.hasMore
\* C23: on a Client constructed with a supplied accessToken every request()
\* sends its API call at once, without a login call, with the supplied token
\* in the Authorization header; when a 401/403 has cleared the slot or the
\* assumed hour has lapsed (60 s margin included), that getToken() installs the
\* same supplied token again with an expiry one hour from now; otherwise the
\* slot is left as it is.
C23_SuppliedTokenResentUnchanged ==
    [][\A s \in Slots, i \in ClientIds :
          (calls[s].pc = "free" /\ calls'[s].pc # "free" /\ calls'[s].client = i
             /\ Supplied(clients[i])) =>
              /\ calls'[s].pc = "api"
              /\ calls'[s].apiReq.auth = clients[i].credentials.accessToken
              /\ calls'[s].logins = 0
              /\ calls'[s].loginReq = NoRequest
              /\ IF clients[i].accessToken = Null \/ NearExpiry(clients[i], now)
                 THEN /\ clients'[i].accessToken = clients[i].credentials.accessToken
                      /\ clients'[i].tokenExpiry = now + 60 * 60 * 1000
                 ELSE Slot(clients'[i]) = Slot(clients[i])]_vars

\* the assumed hour has lapsed without any 401/403: the supplied token was
\* installed again for one more hour and sent
C23_Witness ==
    \E s \in Started :
        /\ Supplied(Owner(s))
        /\ calls[s].how = "supplied"
        /\ calls[s].seen.nearExpiry /\ ~calls[s].seen.cleared
        /\ calls[s].pc = "api"
        /\ now > 0
        /\ Owner(s).tokenExpiry = now + 60 * 60 * 1000
        /\ calls[s].apiReq.auth = SuppliedToken
\* getToken() of call s failed: the login was refused, or the credentials
\* are incomplete
GetTokenFailed(call) ==
    /\ call.pc = "done"
    /\ call.outcome.kind = "AuthenticationFailed"
    /\ call.outcome.why \in {"login", "nocredentials"}

\* C24: a getToken() that fails (login answered non-2xx, or credentials
\* incomplete) leaves the cached token and the recorded expiry of every Client
\* as they were; the slot it leaves is empty or holds a token within 60 s of
\* its expiry or past it, and every getToken() that finds such a slot on a
\* Client with a clientId/clientSecret pair and no supplied token issues a
\* login call.
C24_FailedLoginLeavesSlot ==
    [][\A s \in Slots :
          /\ (calls[s].pc # "done" /\ GetTokenFailed(calls'[s])) =>
                LET i == calls'[s].client
                IN  /\ clients' = clients
                    /\ calls'[s].before = Slot(clients[i])
                    /\ calls'[s].after = Slot(clients[i])
                    /\ calls'[s].apis = 0
                    /\ clients'[i].accessToken = Null \/ NearExpiry(clients'[i], now')
          /\ \A i \in ClientIds :
                (calls[s].pc = "free" /\ calls'[s].pc # "free" /\ calls'[s].client = i
                   /\ ~Supplied(clients[i]) /\ HasPair(clients[i])
                   /\ (clients[i].accessToken = Null \/ NearExpiry(clients[i], now))) =>
                    /\ calls'[s].pc = "login"
                    /\ calls'[s].logins = 1
                    /\ calls'[s].loginReq # NoRequest]_vars

\* a login was refused while an expired token of an earlier login was cached:
\* that token and its expiry are still in the slot
C24_Witness ==
    \E s \in Finished :
        /\ GetTokenFailed(calls[s])
        /\ calls[s].outcome.why = "login"
        /\ calls[s].seen.loggedIn
        /\ calls[s].before.accessToken \in Tokens
        /\ Slot(Owner(s)) = calls[s].before
        /\ NearExpiry(Owner(s), now)
\* C25: on a Client with a clientId/clientSecret pair and no supplied token
\* whose last login, if any, was answered with an expires_in from 1 to 60, the
\* cache never hits: every request() begins with a login call, and no API call
\* is sent before that login is answered.
C25_ShortLivedTokenNeverCached ==
    [][\A s \in Slots, i \in ClientIds :
          (calls[s].pc = "free" /\ calls'[s].pc # "free" /\ calls'[s].client = i
             /\ ~Supplied(clients[i]) /\ HasPair(clients[i])
             /\ (clients[i].lastLogin.done => clients[i].lastLogin.expires_in \in 1..60)) =>
              /\ calls'[s].how = "login"
              /\ calls'[s].pc = "login"
              /\ calls'[s].logins = 1
              /\ calls'[s].apis = 0
              /\ calls'[s].apiReq = NoRequest]_vars

\* a login was answered with expires_in 60, and a request() begun at the same
\* instant, with that token in the slot, logs in again
C25_Witness ==
    \E s \in Started :
        /\ ~Supplied(Owner(s)) /\ HasPair(Owner(s))
        /\ calls[s].pc = "login"
        /\ calls[s].seen.loggedIn /\ ~calls[s].seen.cleared
        /\ Owner(s).lastLogin.done
        /\ Owner(s).lastLogin.expires_in = 60
        /\ Owner(s).lastLogin.at = now
        /\ Owner(s).accessToken = Owner(s).lastLogin.token
C27_IncompletePairFailsWithoutNetwork ==
    \A s \in Started :
        (~Supplied(Owner(s)) /\ ~HasPair(Owner(s))) =>
            /\ calls[s].pc = "done"
            /\ calls[s].how = "nocredentials"
            /\ calls[s].outcome.kind = "AuthenticationFailed"
            /\ calls[s].outcome.message =
                  "No credentials provided. Include X-Looker-Client-ID and X-Looker-Client-Secret headers."
            /\ calls[s].logins = 0 /\ calls[s].apis = 0
            /\ calls[s].loginReq = NoRequest /\ calls[s].apiReq = NoRequest
            /\ calls[s].response = NoResponse
            /\ Slot(Owner(s)) = ClearedSlot

\* a Client with a clientId but no clientSecret, and a request() made after
\* the clock moved
C27_Witness ==
    \E s \in Finished :
        /\ ~Supplied(Owner(s))
        /\ Owner(s).credentials.clientId # Undefined
        /\ Owner(s).credentials.clientSecret = Undefined
        /\ now > 0
        /\ calls[s].outcome.kind = "AuthenticationFailed"
        /\ calls[s].logins = 0 /\ calls[s].apis = 0
\* request('/user') of call s succeeded: the API answered 2xx and the body, if
\* it had to be parsed as JSON, parsed
RequestSucceeded(s) ==
    /\ calls[s].apis = 1
    /\ calls[s].response.status \in 200..299
    /\ \/ calls[s].response.status = 204
       \/ calls[s].response.contentType # "application/json"
       \/ calls[s].response.body \in {"[1]", "null"}

\* the message of the error request() threw
ThrownMessage(s) ==
    CASE calls[s].outcome.kind = "NetworkError" -> "fetch failed"
      [] calls[s].outcome.kind = "Json" -> "Unexpected token"
      [] calls[s].apis = 0 -> "Looker login failed: " \o calls[s].response.body
      [] calls[s].response.status \in {401, 403} ->
             "Authentication failed. Check your API credentials."
      [] OTHER -> calls[s].outcome.message

\* C28: testConnection() never throws: whatever its request('/user') did, the
\* caller gets a value in which connected is true exactly when the request
\* succeeded, and is false together with the message of the error otherwise;
\* a 401/403 answered to it has still emptied the token slot.
C28_TestConnectionNeverFails ==
    \A s \in Replied :
        calls[s].endpoint = "/user" =>
            /\ ~calls[s].envelope.thrown
            /\ calls[s].envelope.connected \in {"true", "false"}
            /\ calls[s].envelope.connected = "true" <=> RequestSucceeded(s)
            /\ calls[s].envelope.connected = "true" =>
                  calls[s].envelope.text = "Successfully connected to Looker API"
            /\ calls[s].envelope.connected = "false" =>
                  calls[s].envelope.text = ThrownMessage(s)
            /\ (calls[s].apis = 1 /\ calls[s].response.status \in {401, 403}) =>
                  /\ calls[s].after = ClearedSlot
                  /\ Slot(Owner(s)) = ClearedSlot

\* the connection test logged in, was answered 403, and returned connected:
\* false with the message of AuthenticationFailed; the token of its login is gone
C28_Witness ==
    \E s \in Replied :
        /\ calls[s].endpoint = "/user"
        /\ calls[s].how = "login"
        /\ calls[s].response.status = 403
        /\ calls[s].before.accessToken \in Tokens
        /\ Slot(Owner(s)) = ClearedSlot
        /\ calls[s].envelope.connected = "false"
        /\ calls[s].envelope.text = "Authentication failed. Check your API credentials."
=============================================================================
